---- MODULE Spec2Model ----
(***************************************************************************)
(* Model of the tiling, padding and blending layer of nodes.py             *)
(* (FlashVSRNode.main and the helpers it calls).  A device to run on is    *)
(* taken to be present (lines 473-480).                                    *)
(*                                                                         *)
(* Tensors are modelled by their shapes; a weight mask and the weight-sum  *)
(* canvas are modelled entry by entry.  linspace(0, 1, overlap) yields the *)
(* values j/(overlap-1), j = 0..overlap-1; a mask entry is kept as its     *)
(* integer numerator over the denominator RampDen(overlap), so 1.0 is      *)
(* RampDen(overlap) and 0.0 is 0.                                          *)
(***************************************************************************)
EXTENDS Integers, Sequences, FiniteSets, TLC

VARIABLES
    call,               \* function-level specification: the helper called and its arguments
    result,             \* function-level specification: what the call returned
    pc,                 \* position of FlashVSRNode.main
    inp,                \* arguments of main (and what the backend will do)
    nframes,            \* _frames.shape[0]
    canvas_frames,      \* final_output_canvas.shape[0] (num_aligned_frames)
    weight_sum_canvas,  \* weight_sum_canvas[y][x]; equal over frames and channels
    tile_coords,        \* the list calculate_tile_coords returned
    tile_idx,           \* number of tiles the loop has finished
    cur,                \* the tile in flight: its prepared input and backend output
    placed,             \* the rectangles accumulated into so far
    live,               \* tiles whose intermediate buffers are not released
    pipe_init,          \* init_pipeline has been called
    pipe_calls,         \* number of backend invocations
    final_output,       \* shape of final_output
    guard_hit,          \* finalize replaced at least one zero weight by 1.0
    ret,                \* number of frames main returned
    err                 \* the exception main raised

fnvars == <<call, result>>
mainvars == <<pc, inp, nframes, canvas_frames, weight_sum_canvas, tile_coords, tile_idx,
              cur, placed, live, pipe_init, pipe_calls, final_output, guard_hit,
              ret, err>>
vars == <<call, result, pc, inp, nframes, canvas_frames, weight_sum_canvas,
          tile_coords, tile_idx, cur, placed, live, pipe_init, pipe_calls,
          final_output, guard_hit, ret, err>>

Min(a, b) == IF a < b THEN a ELSE b
Max(a, b) == IF a > b THEN a ELSE b

\* math.ceil(a / b) for integers a and b > 0
CeilDiv(a, b) == -((-a) \div b)

---------------------------------------------------------------------------
(* Program constants *)

\* multiple = 128 (prepare_input_tensor; default of compute_scaled_and_target_dims)
multiple == 128
\* main pads every batch shorter than 21 frames up to 21 frames
MinFrames == 21
\* num_frames_with_padding = N0 + 4; the canvas has largest_8n1_leq(N + 4) - 4 frames
FramePad == 4

---------------------------------------------------------------------------
(* Pure helpers *)

\* Variant: rounds n, not n - 1, down to a multiple of 8
largest_8n1_leq_of_n(n) == IF n < 1 THEN 0 ELSE (n \div 8) * 8 + 1

\* def largest_8n1_leq(n): return 0 if n < 1 else ((n - 1)//8)*8 + 1
largest_8n1_leq(n) == IF n < 1 THEN 0 ELSE ((n - 1) \div 8) * 8 + 1

\* compute_scaled_and_target_dims: raises ValueError on a non-positive size
compute_scaled_and_target_dims(w0, h0, scale, mult) ==
    IF w0 <= 0 \/ h0 <= 0
    THEN [err |-> "ValueError", sW |-> 0, sH |-> 0, tW |-> 0, tH |-> 0]
    ELSE [err |-> "none",
          sW |-> w0 * scale,
          sH |-> h0 * scale,
          tW |-> Max(mult, ((w0 * scale) \div mult) * mult),
          tH |-> Max(mult, ((h0 * scale) \div mult) * mult)]

\* Length of the Python slice a[lo : lo + len] of an axis of length n (lo >= 0)
SliceLen(n, lo, len) == Max(0, Min(n, lo + len) - Min(n, lo))

\* tensor_upscale_then_center_crop: the shape and the crop offsets of the
\* cropped frame (the bicubic resampling keeps the frame's identity)
tensor_upscale_then_center_crop(h0, w0, scale, tW, tH) ==
    LET sW == w0 * scale
        sH == h0 * scale
        l  == Max(0, (sW - tW) \div 2)
        t  == Max(0, (sH - tH) \div 2)
    IN  [h |-> SliceLen(sH, t, tH), w |-> SliceLen(sW, l, tW), t |-> t, l |-> l]

\* if F == 0: raise RuntimeError("Not enough frames after padding. ...")
insufficient_frames(F) == F = 0

\* prepare_input_tensor on a batch of shape (N0, h0, w0, _): the stack of
\* resampled frames (each named by the index of the frame it was made from),
\* the declared target size and the temporal length F.
prepare_input_tensor(N0, h0, w0, scale) ==
    LET d == compute_scaled_and_target_dims(w0, h0, scale, multiple)
        num_frames_with_padding == N0 + FramePad
        F == largest_8n1_leq(num_frames_with_padding)
        crop == tensor_upscale_then_center_crop(h0, w0, scale, d.tW, d.tH)
    IN  IF d.err # "none"
        THEN [err |-> d.err, frames |-> <<>>, tH |-> 0, tW |-> 0, F |-> 0,
              h |-> 0, w |-> 0]
        ELSE IF insufficient_frames(F)
        THEN [err |-> "RuntimeError", frames |-> <<>>, tH |-> 0, tW |-> 0,
              F |-> 0, h |-> 0, w |-> 0]
        ELSE IF N0 < 1   \* image_tensor[min(i, N0 - 1)] of an empty batch
        THEN [err |-> "IndexError", frames |-> <<>>, tH |-> 0, tW |-> 0,
              F |-> 0, h |-> 0, w |-> 0]
        ELSE [err |-> "none",
              frames |-> [i \in 1..F |-> Min(i - 1, N0 - 1)],
              tH |-> d.tH, tW |-> d.tW, F |-> F,
              h |-> crop.h, w |-> crop.w]

\* Variant: floor instead of math.ceil
num_tiles_floor(extent, overlap, stride) == (extent - overlap) \div stride

\* num_rows / num_cols of calculate_tile_coords
num_tiles(extent, overlap, stride) == CeilDiv(extent - overlap, stride)

\* Variant: the last tile is clamped but not shifted inward
tile_start_unshifted(k, extent, tile_size, stride) == k * stride

\* first coordinate of tile number k along an axis of length extent
tile_start(k, extent, tile_size, stride) ==
    LET a1 == k * stride
        a2 == Min(a1 + tile_size, extent)
    IN  IF a2 - a1 < tile_size THEN Max(0, a2 - tile_size) ELSE a1

\* last coordinate (exclusive) of tile number k along an axis
tile_end(k, extent, tile_size, stride) == Min(k * stride + tile_size, extent)

\* calculate_tile_coords: the tiles (x1, y1, x2, y2) in row-major order
calculate_tile_coords(height, width, tile_size, overlap) ==
    LET stride == tile_size - overlap
        num_rows == Max(0, num_tiles(height, overlap, stride))
        num_cols == Max(0, num_tiles(width, overlap, stride))
    IN  [k \in 1..(num_rows * num_cols) |->
            LET r == (k - 1) \div num_cols
                c == (k - 1) % num_cols
            IN  [x1 |-> tile_start(c, width, tile_size, stride),
                 y1 |-> tile_start(r, height, tile_size, stride),
                 x2 |-> tile_end(c, width, tile_size, stride),
                 y2 |-> tile_end(r, height, tile_size, stride)]]

\* Denominator of the entries of torch.linspace(0, 1, overlap)
RampDen(overlap) == IF overlap > 1 THEN overlap - 1 ELSE 1

\* ramp[j] of torch.linspace(0, 1, overlap), as a numerator
ramp(j, overlap) == IF overlap > 1 THEN j ELSE 0

\* Variant: the ramp is assigned over the mask instead of minimised into it
combine_overwrite(a, b) == b

\* how two ramp values are combined with the mask (torch.minimum)
combine(a, b) == Min(a, b)

\* create_feather_mask((H, W), overlap) for 1 <= overlap <= H, W: the four
\* slice assignments in the order of the code.  mask[y][x], 0-based.
create_feather_mask(H, W, overlap) ==
    LET ones == [y \in 0..(H - 1) |-> [x \in 0..(W - 1) |-> RampDen(overlap)]]
        left == [y \in 0..(H - 1) |-> [x \in 0..(W - 1) |->
                   IF x < overlap
                   THEN combine(ones[y][x], ramp(x, overlap))
                   ELSE ones[y][x]]]
        right == [y \in 0..(H - 1) |-> [x \in 0..(W - 1) |->
                   IF x >= W - overlap
                   THEN combine(left[y][x], ramp(W - 1 - x, overlap))
                   ELSE left[y][x]]]
        top == [y \in 0..(H - 1) |-> [x \in 0..(W - 1) |->
                   IF y < overlap
                   THEN combine(right[y][x], ramp(y, overlap))
                   ELSE right[y][x]]]
        bottom == [y \in 0..(H - 1) |-> [x \in 0..(W - 1) |->
                   IF y >= H - overlap
                   THEN combine(top[y][x], ramp(H - 1 - y, overlap))
                   ELSE top[y][x]]]
    IN  bottom

---------------------------------------------------------------------------
(* Bounds of the function-level specification *)

MaxCandidate == 40
MaxBatch == 20
MaxExtent == 13
MaxTile == 6
MaxMaskSide == 7
MaxMaskOverlap == 4

(* Function-level specification: one call of a helper on drawn arguments *)

Calls ==
    [op : {"largest_8n1_leq"}, n : (-MaxCandidate)..MaxCandidate]
    \cup [op : {"prepare_input_tensor"}, N0 : 0..MaxBatch, h0 : {1, 64},
          w0 : {1, 64}, scale : 2..4]
    \cup {c \in [op : {"calculate_tile_coords"}, height : 1..MaxExtent,
                 width : 1..MaxExtent, tile_size : 2..MaxTile,
                 overlap : 1..(MaxTile - 1)] : c.overlap < c.tile_size}
    \cup {[op |-> "calculate_tile_coords", height |-> 100, width |-> 100,
           tile_size |-> 64, overlap |-> 16]}
    \cup {c \in [op : {"create_feather_mask"}, H : 1..MaxMaskSide,
                 W : 1..MaxMaskSide, overlap : 1..MaxMaskOverlap] :
             c.overlap <= c.H /\ c.overlap <= c.W}

\* main is not running in the function-level specification
MainIdle ==
    /\ pc = "idle" /\ inp = [op |-> "none"] /\ nframes = 0 /\ canvas_frames = 0
    /\ weight_sum_canvas = <<>> /\ tile_coords = <<>> /\ tile_idx = 0
    /\ cur = [status |-> "none"] /\ placed = <<>> /\ live = {}
    /\ pipe_init = FALSE /\ pipe_calls = 0 /\ final_output = [status |-> "none"]
    /\ guard_hit = FALSE /\ ret = -1 /\ err = "none"

FnInit == call \in Calls /\ result = [status |-> "pending"] /\ MainIdle

CallLargest ==
    /\ result.status = "pending" /\ call.op = "largest_8n1_leq"
    /\ result' = [status |-> "done", value |-> largest_8n1_leq(call.n)]
    /\ UNCHANGED <<call, mainvars>>

CallPrepare ==
    /\ result.status = "pending" /\ call.op = "prepare_input_tensor"
    /\ result' = [status |-> "done",
                  value |-> prepare_input_tensor(call.N0, call.h0, call.w0, call.scale)]
    /\ UNCHANGED <<call, mainvars>>

CallTileCoords ==
    /\ result.status = "pending" /\ call.op = "calculate_tile_coords"
    /\ result' = [status |-> "done",
                  coords |-> calculate_tile_coords(call.height, call.width,
                                                   call.tile_size, call.overlap)]
    /\ UNCHANGED <<call, mainvars>>

CallFeatherMask ==
    /\ result.status = "pending" /\ call.op = "create_feather_mask"
    /\ result' = [status |-> "done",
                  mask |-> create_feather_mask(call.H, call.W, call.overlap)]
    /\ UNCHANGED <<call, mainvars>>

FnNext == CallLargest \/ CallPrepare \/ CallTileCoords \/ CallFeatherMask

SpecFn == FnInit /\ [][FnNext]_vars

---------------------------------------------------------------------------
(* The inference backend (pipe) and tensor2video *)

\* Frames the backend takes off the temporal length it was given: 0 is the
\* contract "returns a stack of the same temporal length"; 4 is the length the
\* tiled canvas of main is sized for (largest_8n1_leq(N + 4) - 4).
BackendDrops == {0, FramePad}

\* What the backend returns for a stack whose actual spatial size is not the
\* declared height/width: the declared ("target") size, or the size it was given
BackendSizing == {"declared", "given"}

\* tensor2video(pipe(LQ_video, num_frames = F, height = th, width = tw)): a
\* (frames, height, width, C) stack.  For a stack of the declared spatial size
\* the two sizings agree.
pipe_output(LQ, drop, sizing) ==
    IF sizing = "declared"
    THEN [frames |-> LQ.F - drop, h |-> LQ.tH, w |-> LQ.tW]
    ELSE [frames |-> LQ.F - drop, h |-> LQ.h, w |-> LQ.w]

---------------------------------------------------------------------------
(* FlashVSRNode.main *)

\* Bounds and input sets of the runs of main
MaxN0 == 26
TiledBatches == {1, MaxN0}
Extents == {8, 32, 40, 72}
TileSizes == {32, 64, 96}
Overlaps == {8, 16, 24}
DefaultTileSize == 256
DefaultTileOverlap == 24

Shapes == {<<8, 8>>, <<8, 32>>, <<32, 32>>, <<32, 40>>, <<40, 40>>, <<72, 72>>}

\* The untiled path reads neither tile_size nor tile_overlap: those runs are
\* drawn with the defaults of INPUT_TYPES.
Inputs ==
    {in \in [N0 : 1..MaxN0, H : Extents, W : Extents, scale : 2..4,
             tiled_dit : {FALSE}, tile_size : {DefaultTileSize},
             tile_overlap : {DefaultTileOverlap}, drop : BackendDrops,
             sizing : BackendSizing] :
        <<in.H, in.W>> \in Shapes}
    \cup {in \in [N0 : TiledBatches, H : Extents, W : Extents, scale : 2..4,
                 tiled_dit : {TRUE}, tile_size : TileSizes,
                 tile_overlap : Overlaps, drop : BackendDrops,
                 sizing : BackendSizing] :
             <<in.H, in.W>> \in Shapes}

\* main is not running a helper of the function-level specification
FnIdle == call = [op |-> "main"] /\ result = [status |-> "none"]

Init ==
    /\ FnIdle
    /\ pc = "validate" /\ inp \in Inputs /\ nframes = 0 /\ canvas_frames = 0
    /\ weight_sum_canvas = <<>> /\ tile_coords = <<>> /\ tile_idx = 0
    /\ cur = [status |-> "none"] /\ placed = <<>> /\ live = {}
    /\ pipe_init = FALSE /\ pipe_calls = 0 /\ final_output = [status |-> "none"]
    /\ guard_hit = FALSE /\ ret = -1 /\ err = "none"

\* An exception leaves main: its locals are gone
Raise(e) ==
    /\ pc' = "error" /\ err' = e
    /\ weight_sum_canvas' = <<>> /\ cur' = [status |-> "none"]
    /\ final_output' = [status |-> "none"]

\* if tiled_dit and (tile_overlap > tile_size / 2): raise ValueError
overlap_rejected(tiled_dit, tile_size, tile_overlap) ==
    tiled_dit /\ 2 * tile_overlap > tile_size

Validate ==
    /\ pc = "validate"
    /\ IF overlap_rejected(inp.tiled_dit, inp.tile_size, inp.tile_overlap)
       THEN Raise("ValueError")
       ELSE /\ pc' = "pad"
            /\ UNCHANGED <<err, weight_sum_canvas, cur, final_output>>
    /\ UNCHANGED <<call, result, inp, nframes, canvas_frames, tile_coords,
                   tile_idx, placed, live, pipe_init, pipe_calls, guard_hit, ret>>

\* _frames: frames, followed by copies of the last frame up to 21 frames
padded_count(N0) == IF N0 < MinFrames THEN N0 + (MinFrames - N0) ELSE N0

PadFrames ==
    /\ pc = "pad"
    /\ nframes' = padded_count(inp.N0)
    /\ pc' = IF inp.tiled_dit THEN "tiled_setup" ELSE "whole"
    /\ UNCHANGED <<call, result, inp, canvas_frames, weight_sum_canvas,
                   tile_coords, tile_idx, cur, placed, live, pipe_init,
                   pipe_calls, final_output, guard_hit, ret, err>>

\* num_aligned_frames = largest_8n1_leq(N + 4) - 4
num_aligned_frames(N) == largest_8n1_leq(N + FramePad) - FramePad

\* torch.zeros((num_aligned_frames, H * scale, W * scale, C))
zeros_canvas(CH, CW) == [y \in 0..(CH - 1) |-> [x \in 0..(CW - 1) |-> 0]]

TiledSetup ==
    /\ pc = "tiled_setup"
    /\ canvas_frames' = num_aligned_frames(nframes)
    /\ weight_sum_canvas' = zeros_canvas(inp.H * inp.scale, inp.W * inp.scale)
    /\ tile_coords' = calculate_tile_coords(inp.H, inp.W, inp.tile_size,
                                            inp.tile_overlap)
    /\ pipe_init' = TRUE
    /\ pc' = "tile_loop"
    /\ UNCHANGED <<call, result, inp, nframes, tile_idx, cur, placed, live,
                   pipe_calls, final_output, guard_hit, ret, err>>

\* The tile the loop is at
this_tile == tile_coords[tile_idx + 1]

\* input_tile = _frames[:, y1:y2, x1:x2, :]; prepare_input_tensor(input_tile)
tile_input(t) == prepare_input_tensor(nframes, t.y2 - t.y1, t.x2 - t.x1, inp.scale)

\* Lines 524-536 with a backend call that returns
TileInfer ==
    /\ pc = "tile_loop" /\ tile_idx < Len(tile_coords)
    /\ LET LQ == tile_input(this_tile)
       IN  IF LQ.err # "none"
           THEN /\ Raise(LQ.err)
                /\ UNCHANGED <<pipe_calls, live>>
           ELSE /\ pipe_calls' = pipe_calls + 1
                /\ live' = live \cup {tile_idx}
                /\ cur' = [status |-> "inferred", LQ |-> LQ,
                           out |-> pipe_output(LQ, inp.drop, inp.sizing)]
                /\ pc' = "tile_blend"
                /\ UNCHANGED <<err, weight_sum_canvas, final_output>>
    /\ UNCHANGED <<call, result, inp, nframes, canvas_frames, tile_coords,
                   tile_idx, placed, pipe_init, guard_hit, ret>>

\* Lines 524-536 with a backend call that raises: the exception leaves main
\* with the tile's buffers never reaching line 553
TileInferFails ==
    /\ pc = "tile_loop" /\ tile_idx < Len(tile_coords)
    /\ tile_input(this_tile).err = "none"
    /\ pipe_calls' = pipe_calls + 1
    /\ live' = live \cup {tile_idx}
    /\ Raise("BackendFailure")
    /\ UNCHANGED <<call, result, inp, nframes, canvas_frames, tile_coords,
                   tile_idx, placed, pipe_init, guard_hit, ret>>

\* out_x1, out_y1 = x1 * scale, y1 * scale; out_x2, out_y2 = out_x1 +
\* tile_W_scaled, out_y1 + tile_H_scaled
out_rect(t, scale, tile_H_scaled, tile_W_scaled) ==
    [x1 |-> t.x1 * scale, y1 |-> t.y1 * scale,
     x2 |-> t.x1 * scale + tile_W_scaled, y2 |-> t.y1 * scale + tile_H_scaled]

\* a += b in place: b must broadcast to the shape of a
broadcasts(a, b) == a = b \/ b = 1

\* canvas[:, out_y1:out_y2, out_x1:out_x2, :] += tile * mask is accepted
accumulate_fits(CF, CH, CW, r, out) ==
    /\ broadcasts(CF, out.frames)
    /\ broadcasts(SliceLen(CH, r.y1, out.h), out.h)
    /\ broadcasts(SliceLen(CW, r.x1, out.w), out.w)

\* weight_sum_canvas[:, out_y1:out_y2, out_x1:out_x2, :] += mask_nhwc
add_mask(canvas, r, mask) ==
    [y \in DOMAIN canvas |->
        IF y >= r.y1 /\ y < r.y2
        THEN [x \in DOMAIN canvas[y] |->
                 IF x >= r.x1 /\ x < r.x2
                 THEN canvas[y][x] + mask[y - r.y1][x - r.x1]
                 ELSE canvas[y][x]]
        ELSE canvas[y]]

\* Lines 538-554: feather mask, accumulation, release of the tile's buffers
TileBlend ==
    /\ pc = "tile_blend"
    /\ LET out == cur.out
           ov  == inp.tile_overlap * inp.scale
           r   == out_rect(this_tile, inp.scale, out.h, out.w)
       IN  IF ov > out.h \/ ov > out.w
              \/ ~accumulate_fits(canvas_frames, inp.H * inp.scale,
                                  inp.W * inp.scale, r, out)
           THEN /\ Raise("RuntimeError")
                /\ UNCHANGED <<placed, live, tile_idx>>
           ELSE /\ weight_sum_canvas' =
                       add_mask(weight_sum_canvas, r,
                                create_feather_mask(out.h, out.w, ov))
                /\ placed' = Append(placed, r)
                /\ live' = live \ {tile_idx}
                /\ tile_idx' = tile_idx + 1
                /\ cur' = [status |-> "none"]
                /\ pc' = "tile_loop"
                /\ UNCHANGED <<err, final_output>>
    /\ UNCHANGED <<call, result, inp, nframes, canvas_frames, tile_coords,
                   pipe_init, pipe_calls, guard_hit, ret>>

\* weight_sum_canvas[weight_sum_canvas == 0] = 1.0
zero_guard(canvas, one) ==
    [y \in DOMAIN canvas |->
        [x \in DOMAIN canvas[y] |-> IF canvas[y][x] = 0 THEN one ELSE canvas[y][x]]]

has_zero(canvas) == \E y \in DOMAIN canvas : \E x \in DOMAIN canvas[y] : canvas[y][x] = 0

\* Lines 556-557
Finalize ==
    /\ pc = "tile_loop" /\ tile_idx = Len(tile_coords)
    /\ guard_hit' = has_zero(weight_sum_canvas)
    /\ weight_sum_canvas' =
           zero_guard(weight_sum_canvas, RampDen(inp.tile_overlap * inp.scale))
    /\ final_output' = [status |-> "ready", frames |-> canvas_frames,
                        h |-> inp.H * inp.scale, w |-> inp.W * inp.scale]
    /\ pc' = "return"
    /\ UNCHANGED <<call, result, inp, nframes, canvas_frames, tile_coords,
                   tile_idx, cur, placed, live, pipe_init, pipe_calls, ret, err>>

\* Lines 559-577 with a backend call that returns
WholeInfer ==
    /\ pc = "whole"
    /\ LET LQ == prepare_input_tensor(nframes, inp.H, inp.W, inp.scale)
       IN  IF LQ.err # "none"
           THEN /\ Raise(LQ.err)
                /\ UNCHANGED <<pipe_init, pipe_calls>>
           ELSE /\ pipe_init' = TRUE
                /\ pipe_calls' = pipe_calls + 1
                /\ final_output' = [status |-> "ready"] @@
                                    pipe_output(LQ, inp.drop, inp.sizing)
                /\ pc' = "return"
                /\ UNCHANGED <<err, weight_sum_canvas, cur>>
    /\ UNCHANGED <<call, result, inp, nframes, canvas_frames, tile_coords,
                   tile_idx, placed, live, guard_hit, ret>>

\* Lines 559-572 with a backend call that raises
WholeInferFails ==
    /\ pc = "whole"
    /\ prepare_input_tensor(nframes, inp.H, inp.W, inp.scale).err = "none"
    /\ pipe_init' = TRUE
    /\ pipe_calls' = pipe_calls + 1
    /\ Raise("BackendFailure")
    /\ UNCHANGED <<call, result, inp, nframes, canvas_frames, tile_coords,
                   tile_idx, placed, live, guard_hit, ret>>

\* Lines 580-585.  torch.median(final_output, dim=0) with a dim returns the
\* pair (values, indices), which has no unsqueeze: the call raises
\* AttributeError and no frame is returned.
median_collapse(out) == [err |-> "AttributeError", frames |-> 0]

ReturnMedian ==
    /\ pc = "return" /\ inp.N0 = 1
    /\ LET m == median_collapse(final_output)
       IN  IF m.err # "none"
           THEN Raise(m.err) /\ UNCHANGED ret
           ELSE /\ ret' = m.frames /\ pc' = "done" /\ weight_sum_canvas' = <<>>
                /\ UNCHANGED <<err, cur, final_output>>
    /\ UNCHANGED <<call, result, inp, nframes, canvas_frames, tile_coords,
                   tile_idx, placed, live, pipe_init, pipe_calls, guard_hit>>

\* final_output[:frames.shape[0], :, :, :]
trim(out_frames, N0) == SliceLen(out_frames, 0, N0)

\* Line 587
ReturnTrim ==
    /\ pc = "return" /\ inp.N0 # 1
    /\ ret' = trim(final_output.frames, inp.N0)
    /\ pc' = "done"
    /\ weight_sum_canvas' = <<>>
    /\ UNCHANGED <<call, result, inp, nframes, canvas_frames, tile_coords,
                   tile_idx, cur, placed, live, pipe_init, pipe_calls,
                   final_output, guard_hit, err>>

Next ==
    \/ Validate
    \/ PadFrames
    \/ TiledSetup
    \/ TileInfer
    \/ TileInferFails
    \/ TileBlend
    \/ Finalize
    \/ WholeInfer
    \/ WholeInferFails
    \/ ReturnMedian
    \/ ReturnTrim

Spec == Init /\ [][Next]_vars

---------------------------------------------------------------------------
(* Properties of the helpers, under SpecFn *)

FnDone(op) == call.op = op /\ result.status = "done"

TileIds == 1..Len(result.coords)

\* b is the tile that follows a along the x axis (same row)
NextInRow(a, b) ==
    /\ a.y1 = b.y1 /\ a.y2 = b.y2 /\ a.x1 < b.x1
    /\ ~\E k \in TileIds :
          LET c == result.coords[k]
          IN  c.y1 = a.y1 /\ c.y2 = a.y2 /\ a.x1 < c.x1 /\ c.x1 < b.x1

\* b is the tile that follows a along the y axis (same column)
NextInColumn(a, b) ==
    /\ a.x1 = b.x1 /\ a.x2 = b.x2 /\ a.y1 < b.y1
    /\ ~\E k \in TileIds :
          LET c == result.coords[k]
          IN  c.x1 = a.x1 /\ c.x2 = a.x2 /\ a.y1 < c.y1 /\ c.y1 < b.y1

\* C3: for height >= tileSize, width >= tileSize and 0 < overlap < tileSize every
\* tile of calculate_tile_coords lies inside the canvas, is non-empty, measures
\* tileSize x tileSize, and the tiles together cover every pixel of the canvas.
C3_TilesInsideUniformAndCovering ==
    (/\ FnDone("calculate_tile_coords")
     /\ call.height >= call.tile_size /\ call.width >= call.tile_size
     /\ 0 < call.overlap /\ call.overlap < call.tile_size)
    => /\ \A k \in TileIds :
             LET t == result.coords[k]
             IN  /\ 0 <= t.x1 /\ t.x1 < t.x2 /\ t.x2 <= call.width
                 /\ 0 <= t.y1 /\ t.y1 < t.y2 /\ t.y2 <= call.height
                 /\ t.x2 - t.x1 = call.tile_size
                 /\ t.y2 - t.y1 = call.tile_size
       /\ \A y \in 0..(call.height - 1) : \A x \in 0..(call.width - 1) :
             \E k \in TileIds :
                LET t == result.coords[k]
                IN  t.x1 <= x /\ x < t.x2 /\ t.y1 <= y /\ y < t.y2

\* C3 witness: a canvas larger than one tile in both axes whose last column
\* was shifted inward
C3_Witness ==
    /\ FnDone("calculate_tile_coords")
    /\ call.height > call.tile_size /\ call.width > call.tile_size
    /\ Len(result.coords) >= 4
    /\ \E k \in TileIds :
          /\ result.coords[k].x2 = call.width
          /\ result.coords[k].x1 % (call.tile_size - call.overlap) # 0

\* C4 as stated: any two consecutive tiles along an axis, the inward-shifted
\* last tile included, overlap by exactly `overlap` pixels on that axis.
C4_ConsecutiveOverlapExact ==
    FnDone("calculate_tile_coords")
    => \A j \in TileIds : \A k \in TileIds :
          LET a == result.coords[j]
              b == result.coords[k]
          IN  /\ NextInRow(a, b) => a.x2 - b.x1 = call.overlap
              /\ NextInColumn(a, b) => a.y2 - b.y1 = call.overlap

\* C4 amended: consecutive tiles along an axis overlap by at least `overlap`
\* pixels, and by exactly `overlap` when the later tile does not end at the
\* canvas edge; the tile that ends at the canvas edge spans
\* [extent - tileSize, extent).  calculate_tile_coords(100, 100, 64, 16)
\* yields adjacent tiles overlapping by 28.
C4_ConsecutiveOverlapAtLeast ==
    FnDone("calculate_tile_coords")
    => \A j \in TileIds : \A k \in TileIds :
          LET a == result.coords[j]
              b == result.coords[k]
          IN  /\ NextInRow(a, b) =>
                    /\ a.x2 - b.x1 >= call.overlap
                    /\ b.x2 < call.width => a.x2 - b.x1 = call.overlap
                    /\ b.x2 = call.width => b.x1 = call.width - call.tile_size
                    /\ (call.width = 100 /\ call.tile_size = 64
                        /\ call.overlap = 16) => a.x2 - b.x1 = 28
              /\ NextInColumn(a, b) =>
                    /\ a.y2 - b.y1 >= call.overlap
                    /\ b.y2 < call.height => a.y2 - b.y1 = call.overlap
                    /\ b.y2 = call.height => b.y1 = call.height - call.tile_size
                    /\ (call.height = 100 /\ call.tile_size = 64
                        /\ call.overlap = 16) => a.y2 - b.y1 = 28

\* C4 witness: a row with an unshifted pair overlapping by `overlap` and a
\* last tile overlapping its predecessor by more
C4_Witness ==
    /\ FnDone("calculate_tile_coords")
    /\ \E j \in TileIds : \E k \in TileIds :
          /\ NextInRow(result.coords[j], result.coords[k])
          /\ result.coords[j].x2 - result.coords[k].x1 = call.overlap
    /\ \E j \in TileIds : \E k \in TileIds :
          /\ NextInRow(result.coords[j], result.coords[k])
          /\ result.coords[j].x2 - result.coords[k].x1 > call.overlap

\* C5 as stated: prepare_input_tensor on N >= 1 frames yields a stack of
\* length F = largest_8n1_leq(N + 4) with F >= N, whose first N frames are the
\* original frames in order and whose frames from index N on are copies of
\* frame N - 1.
C5_PaddedStackKeepsEveryFrame ==
    (FnDone("prepare_input_tensor") /\ call.N0 >= 1)
    => LET p == result.value
       IN  /\ p.err = "none"
           /\ p.F = largest_8n1_leq(call.N0 + 4)
           /\ Len(p.frames) = p.F
           /\ p.F >= call.N0
           /\ \A j \in 1..call.N0 : j <= p.F /\ p.frames[j] = j - 1
           /\ \A j \in (call.N0 + 1)..p.F : p.frames[j] = call.N0 - 1

\* C6: for N >= 1 largest_8n1_leq(N + 4) is congruent to 1 modulo 8, positive,
\* at most N + 4 and the largest such value; for a candidate below 1 it is 0,
\* the value the guard of prepare_input_tensor turns into a RuntimeError.
C6_LargestAlignedLength ==
    FnDone("largest_8n1_leq")
    => LET n == call.n
           v == result.value
       IN  /\ n >= 5 => /\ v % 8 = 1 /\ v > 0 /\ v <= n
                        /\ \A m \in (v + 1)..n : m % 8 # 1
                        /\ ~insufficient_frames(v)
           /\ n < 1 => v = 0 /\ insufficient_frames(v)

\* C6 witness: a candidate that is rounded down (12 -> 9)
C6_Witness ==
    FnDone("largest_8n1_leq") /\ call.n = 12 /\ result.value = 9

\* The edge ramp of C7 at distance d from an edge, as a numerator over
\* overlap - 1
EdgeRamp(d, overlap) == IF d < overlap THEN d ELSE overlap - 1

Min4(a, b, c, d) == Min(Min(a, b), Min(c, d))

\* C7: for overlap >= 2 and H, W >= overlap every entry (y, x) of
\* create_feather_mask is the minimum of the four edge ramps, lies in [0, 1],
\* is 0 on the four border lines, and is 1 at the centre when H, W > 2*overlap.
C7_MaskIsMinimumOfEdgeRamps ==
    (/\ FnDone("create_feather_mask")
     /\ call.overlap >= 2 /\ call.H >= call.overlap /\ call.W >= call.overlap)
    => LET m == result.mask
           ov == call.overlap
       IN  /\ \A y \in 0..(call.H - 1) : \A x \in 0..(call.W - 1) :
                 /\ m[y][x] = Min4(EdgeRamp(x, ov), EdgeRamp(call.W - 1 - x, ov),
                                   EdgeRamp(y, ov), EdgeRamp(call.H - 1 - y, ov))
                 /\ 0 <= m[y][x] /\ m[y][x] <= ov - 1
                 /\ (y = 0 \/ y = call.H - 1 \/ x = 0 \/ x = call.W - 1)
                       => m[y][x] = 0
           /\ (call.H > 2 * ov /\ call.W > 2 * ov)
                 => m[call.H \div 2][call.W \div 2] = ov - 1

\* C7 witness: a mask with a centre of weight 1, a border of weight 0 and a
\* ramp value strictly between them
C7_Witness ==
    /\ FnDone("create_feather_mask")
    /\ call.overlap >= 3 /\ call.H > 2 * call.overlap /\ call.W > 2 * call.overlap
    /\ result.mask[call.H \div 2][call.W \div 2] = call.overlap - 1
    /\ result.mask[0][0] = 0
    /\ result.mask[1][call.W \div 2] = 1

\* C12 as stated: for 1 <= height <= tileSize, 1 <= width <= tileSize and
\* 0 < overlap < tileSize (height or width <= overlap included)
\* calculate_tile_coords returns exactly one tile, the full canvas
\* (0, 0, width, height), and never an empty list.
C12_SmallCanvasIsOneFullTile ==
    (/\ FnDone("calculate_tile_coords")
     /\ 1 <= call.height /\ call.height <= call.tile_size
     /\ 1 <= call.width /\ call.width <= call.tile_size
     /\ 0 < call.overlap /\ call.overlap < call.tile_size)
    => /\ Len(result.coords) = 1
       /\ result.coords[1] = [x1 |-> 0, y1 |-> 0, x2 |-> call.width,
                              y2 |-> call.height]

---------------------------------------------------------------------------
(* Properties of FlashVSRNode.main, under Spec *)

\* C1 as stated: with a backend that returns the temporal length it was given,
\* a run of main that completes returns exactly as many frames as it was given.
C1_ReturnsInputFrameCount ==
    (pc = "done" /\ inp.drop = 0) => ret = inp.N0

\* C2 as stated: with tiling on, every tile_overlap >= tile_size / 2 (equality
\* included) makes main raise the tiling error before the pipeline is
\* initialised or the backend is invoked.
C2_HalfTileOverlapRejected ==
    (/\ pc \notin {"idle", "validate"}
     /\ inp.tiled_dit /\ 2 * inp.tile_overlap >= inp.tile_size)
    => (pc = "error" /\ err = "ValueError" /\ ~pipe_init /\ pipe_calls = 0)

\* C8 as stated: with a single input frame, the step after inference raises no
\* error and returns exactly one frame.
C8_SingleFrameReturnsOneFrame ==
    [][(pc = "return" /\ inp.N0 = 1) => (pc' = "done" /\ ret' = 1)]_vars

\* The tile's output was accumulated into the tile's source rectangle times scale
PlacedOnScaledRect(t, r) ==
    /\ r.x1 = t.x1 * inp.scale /\ r.y1 = t.y1 * inp.scale
    /\ r.x2 = t.x2 * inp.scale /\ r.y2 = t.y2 * inp.scale

\* The stack prepared for the tile has the declared 128-aligned size
Conformant(t) == LET LQ == tile_input(t) IN LQ.h = LQ.tH /\ LQ.w = LQ.tW

\* C9 as stated, on the runs whose tiles all had a prepared stack of the
\* declared size and were placed on their scaled source rectangles: in a tiled
\* run with tile_overlap < tile_size / 2 in which every tile was processed,
\* after the last accumulate every entry of weight_sum_canvas is strictly
\* positive.
C9_WeightsPositiveBeforeFinalize ==
    (/\ pc = "tile_loop" /\ inp.tiled_dit
     /\ 2 * inp.tile_overlap < inp.tile_size
     /\ Len(tile_coords) >= 1 /\ tile_idx = Len(tile_coords)
     /\ \A k \in 1..Len(placed) :
           /\ Conformant(tile_coords[k])
           /\ PlacedOnScaledRect(tile_coords[k], placed[k]))
    => \A y \in DOMAIN weight_sum_canvas :
          \A x \in DOMAIN weight_sum_canvas[y] : weight_sum_canvas[y][x] > 0

\* C10 as stated, on the tiles whose prepared stack has the declared 128-aligned
\* size: every rectangle a tile's output was accumulated into is the tile's
\* source rectangle times scale, and lies inside the canvas.
C10_PlacementIsScaledSourceRect ==
    (pc # "idle")
    => \A k \in 1..Len(placed) :
          LET t == tile_coords[k]
              r == placed[k]
          IN  Conformant(t)
              => /\ PlacedOnScaledRect(t, r)
                 /\ 0 <= r.x1 /\ r.x2 <= inp.W * inp.scale
                 /\ 0 <= r.y1 /\ r.y2 <= inp.H * inp.scale

\* C11 as stated, for the tile stacks of a tiled run: the stack handed to the
\* backend has a temporal length of the form 8k + 1 and an actual spatial size
\* equal to the declared (tH, tW), both positive multiples of 128, also when
\* the scaled tile is smaller than 128.
C11_StackMatchesDeclaredSize ==
    (pc = "tile_blend" /\ cur.status = "inferred")
    => LET LQ == cur.LQ
       IN  /\ LQ.F % 8 = 1 /\ Len(LQ.frames) = LQ.F
           /\ LQ.tH > 0 /\ LQ.tH % multiple = 0
           /\ LQ.tW > 0 /\ LQ.tW % multiple = 0
           /\ LQ.h = LQ.tH /\ LQ.w = LQ.tW

\* C13 as stated, for the runs that return or end in a backend failure: when
\* the run has ended, the intermediate buffers of every tile whose processing
\* had started have been released (del + clean_vram).
C13_TileBuffersReleasedAtEnd ==
    (pc = "done" \/ (pc = "error" /\ err = "BackendFailure")) => live = {}

====
